---- MODULE Spec2Model ----
(***************************************************************************)
(* task_classifier.py: a Streamlit script.  Every user interaction reruns  *)
(* the script top to bottom: the credentials are read and checked, the two *)
(* chat models are built, and the three tab bodies run in order; at most   *)
(* one button is pressed in a run.  st.session_state and the st.cache_data *)
(* store outlive a run; everything else is rebuilt.                        *)
(*                                                                         *)
(* Text is a sequence of characters; a literal piece of an f-string        *)
(* template is kept as one element.  Emoji of the source's literals are    *)
(* left out of the strings.                                                *)
(*                                                                         *)
(* tab1, tab2 and tab3 are layout containers of the display surface and    *)
(* carry no state.  The module never binds the global name llm that        *)
(* smart_enhance_prompt (line 132) and the Analyze Image handler (line     *)
(* 196) read: llm is assigned only as a local of handle_text_task.         *)
(***************************************************************************)
EXTENDS Integers, Sequences, FiniteSets, TLC

VARIABLES
    secrets,            \* st.secrets / the environment of the process
    pc,                 \* position of the current script run
    clicked,            \* the button pressed in this run
    google_api_key, openai_api_key, pollinations_token,
    gemini_llm, openai_llm,
    session_state,      \* st.session_state
    query,              \* tab1 text input, as read by the Process handler
    llm, name, reason, accuracy,   \* locals of handle_text_task
    final_response, response_placeholder,
    img_prompt, selected_style, quick_prompt,
    uploaded_img, qna_prompt, img_read, content,
    final_prompt, img_bytes, image_shown, download_offered,
    cache,              \* st.cache_data store of fetch_image
    banners,            \* st.error / st.warning calls of this run
    outcome,            \* how this run ended
    calls,              \* backend and HTTP calls of this run
    stream_in,          \* chunks the backend delivered in this run
    stream_ended,       \* the stream of this run ran to its end
    conv_at_start,      \* the history when this run began
    submitted,          \* queries whose stream ended, since the last Clear
    image_requests,     \* every call of fetch_image of the process
    http_log            \* every HTTP GET of the process, with its outcome

vars == << secrets, pc, clicked, google_api_key, openai_api_key, pollinations_token,
           gemini_llm, openai_llm, session_state, query, llm, name, reason,
           accuracy, final_response, response_placeholder, img_prompt,
           selected_style, quick_prompt, uploaded_img, qna_prompt, img_read,
           content, final_prompt, img_bytes, image_shown, download_offered,
           cache, banners, outcome, calls, stream_in, stream_ended,
           conv_at_start, submitted, image_requests, http_log >>

-----------------------------------------------------------------------------
(* Bounds *)

MaxFrags == 6
MaxHistory == 2
MaxChunks == 2
MaxImageRequests == 3

-----------------------------------------------------------------------------
(* Text *)

None == << "<None>" >>
NoText == << >>

UpperCase == << "A", "B", "C", "D", "E", "F", "G", "H", "I", "J", "K", "L", "M",
                "N", "O", "P", "Q", "R", "S", "T", "U", "V", "W", "X", "Y", "Z" >>
LowerCase == << "a", "b", "c", "d", "e", "f", "g", "h", "i", "j", "k", "l", "m",
                "n", "o", "p", "q", "r", "s", "t", "u", "v", "w", "x", "y", "z" >>

LowerOf ==
    [c \in { UpperCase[i] : i \in 1..Len(UpperCase) } |->
        LowerCase[CHOOSE i \in 1..Len(UpperCase) : UpperCase[i] = c]]

LowerChar(c) == IF c \in DOMAIN LowerOf THEN LowerOf[c] ELSE c

\* str.lower()
lower(s) == [i \in 1..Len(s) |-> LowerChar(s[i])]

\* k in s
In(k, s) ==
    \E i \in 0..(Len(s) - Len(k)) : SubSeq(s, i + 1, i + Len(k)) = k

\* not s, for a str or None
Falsy(s) == s = None \/ s = NoText

RECURSIVE Concat(_)
Concat(ss) == IF ss = << >> THEN << >> ELSE Head(ss) \o Concat(Tail(ss))

-----------------------------------------------------------------------------
(* Router *)

kw_image == << "i", "m", "a", "g", "e" >>
kw_analyze == << "a", "n", "a", "l", "y", "z", "e" >>
kw_summarize == << "s", "u", "m", "m", "a", "r", "i", "z", "e" >>
kw_explain == << "e", "x", "p", "l", "a", "i", "n" >>
kw_creative == << "c", "r", "e", "a", "t", "i", "v", "e" >>
kw_story == << "s", "t", "o", "r", "y" >>

Gemini == "Gemini"
OpenAI == "OpenAI gpt-5-nano"

\* confidence values, in hundredths
ConfMultimodal == 92
ConfSummarize == 95
ConfCreative == 93
ConfDefault == 90

ReasonMultimodal == "Gemini is better at multimodal reasoning (text + images)."
ReasonSummarize == "GPT is excellent for summarization and structured text tasks."
ReasonCreative == "GPT is strong for creative writing tasks."
ReasonDefault == "Gemini flash is faster for general-purpose queries."

Decision(l, n, r, a) == [llm |-> l, name |-> n, reason |-> r, accuracy |-> a]

\* a plausible slip: the keyword tests run on the query as typed
choose_llm_no_lower(qry) ==
    LET q == qry IN
    IF In(kw_image, q) \/ In(kw_analyze, q)
    THEN Decision("gemini_llm", Gemini, ReasonMultimodal, ConfMultimodal)
    ELSE IF In(kw_summarize, q) \/ In(kw_explain, q)
    THEN Decision("openai_llm", OpenAI, ReasonSummarize, ConfSummarize)
    ELSE IF In(kw_creative, q) \/ In(kw_story, q)
    THEN Decision("openai_llm", OpenAI, ReasonCreative, ConfCreative)
    ELSE Decision("gemini_llm", Gemini, ReasonDefault, ConfDefault)

choose_llm(qry) ==
    LET q == lower(qry) IN
    IF In(kw_image, q) \/ In(kw_analyze, q)
    THEN Decision("gemini_llm", Gemini, ReasonMultimodal, ConfMultimodal)
    ELSE IF In(kw_summarize, q) \/ In(kw_explain, q)
    THEN Decision("openai_llm", OpenAI, ReasonSummarize, ConfSummarize)
    ELSE IF In(kw_creative, q) \/ In(kw_story, q)
    THEN Decision("openai_llm", OpenAI, ReasonCreative, ConfCreative)
    ELSE Decision("gemini_llm", Gemini, ReasonDefault, ConfDefault)

-----------------------------------------------------------------------------
(* Values of a run *)

Unread == << "<unread>" >>
Unbuilt == [model |-> "", api_key |-> None, built |-> FALSE]
NoUpload == [present |-> FALSE, bytes |-> << >>]

\* what the secret source can hold for one credential
KeyValues == { None, NoText, << "k" >> }

\* texts typed into the tab1 input
TextQueries == { NoText,
                 << "S", "T", "O", "R", "Y" >>,
                 << "h", "i" >> }

\* chunk.content of one streamed chunk
ChunkContents == { None, << "a" >>, << "b" >> }

ImagePrompts == { NoText, << "c", "a", "t" >> }
styles == << "Realistic", "Cartoon", "Fantasy", "Minimalist" >>
Uploads == { NoUpload,
             [present |-> TRUE, bytes |-> << 77 >>],
             [present |-> TRUE, bytes |-> << 137, 80, 78, 71 >>] }
Questions == { NoText, << "a", "n", "a", "l", "y", "z", "e", "?" >> }

conversation == session_state.conversation

Error(text) == [kind |-> "error", text |-> text]
Warning(text) == [kind |-> "warning", text |-> text]
Call(to, method, input) == [to |-> to, method |-> method, input |-> input]

ResetRun ==
    /\ clicked' = "unread"
    /\ gemini_llm' = Unbuilt
    /\ openai_llm' = Unbuilt
    /\ query' = Unread
    /\ llm' = "unset"
    /\ name' = ""
    /\ reason' = ""
    /\ accuracy' = 0
    /\ final_response' = Unread
    /\ response_placeholder' = Unread
    /\ img_prompt' = Unread
    /\ selected_style' = "unread"
    /\ quick_prompt' = Unread
    /\ uploaded_img' = NoUpload
    /\ qna_prompt' = Unread
    /\ img_read' = FALSE
    /\ content' = << >>
    /\ final_prompt' = Unread
    /\ img_bytes' = "unset"
    /\ image_shown' = FALSE
    /\ download_offered' = FALSE
    /\ banners' = {}
    /\ outcome' = "running"
    /\ calls' = << >>
    /\ stream_in' = << >>
    /\ stream_ended' = FALSE

\* the state of a fresh process, but for the secrets, the position and
\* the query
InitRest ==
    /\ clicked = "unread"
    /\ google_api_key = None
    /\ openai_api_key = None
    /\ pollinations_token = None
    /\ gemini_llm = Unbuilt
    /\ openai_llm = Unbuilt
    /\ session_state = [has_conversation |-> FALSE, conversation |-> << >>]
    /\ llm = "unset"
    /\ name = ""
    /\ reason = ""
    /\ accuracy = 0
    /\ final_response = Unread
    /\ response_placeholder = Unread
    /\ img_prompt = Unread
    /\ selected_style = "unread"
    /\ quick_prompt = Unread
    /\ uploaded_img = NoUpload
    /\ qna_prompt = Unread
    /\ img_read = FALSE
    /\ content = << >>
    /\ final_prompt = Unread
    /\ img_bytes = "unset"
    /\ image_shown = FALSE
    /\ download_offered = FALSE
    /\ cache = {}
    /\ banners = {}
    /\ outcome = "none"
    /\ calls = << >>
    /\ stream_in = << >>
    /\ stream_ended = FALSE
    /\ conv_at_start = << >>
    /\ submitted = << >>
    /\ image_requests = << >>
    /\ http_log = << >>

AllSecrets ==
    [GOOGLE_API_KEY : KeyValues, OPENAI_API_KEY : KeyValues,
     POLLINATIONS_TOKEN : KeyValues]

Init ==
    /\ secrets \in AllSecrets
    /\ pc = "idle"
    /\ query = Unread
    /\ InitRest

-----------------------------------------------------------------------------
(* Startup: lines 15-47 *)

\* a user interaction starts a run; lines 15-18 read the credentials
Rerun ==
    /\ pc = "idle"
    /\ google_api_key' = secrets.GOOGLE_API_KEY
    /\ openai_api_key' = secrets.OPENAI_API_KEY
    /\ pollinations_token' = secrets.POLLINATIONS_TOKEN
    /\ ResetRun
    /\ conv_at_start' = conversation
    /\ pc' = "startup"
    /\ UNCHANGED << secrets, session_state, cache, submitted, image_requests,
                    http_log >>

\* a plausible slip: the token check is left out
CredentialsPresent_no_token(g, o, p) == ~Falsy(g) /\ ~Falsy(o)

CredentialsPresent(g, o, p) == ~Falsy(g) /\ ~Falsy(o) /\ ~Falsy(p)

MissingCredential(g, o, p) ==
    IF Falsy(g) THEN "GOOGLE_API_KEY"
    ELSE IF Falsy(o) THEN "OPENAI_API_KEY"
    ELSE "POLLINATIONS_TOKEN"

\* st.error, st.stop
CredentialStop ==
    /\ pc = "startup"
    /\ ~CredentialsPresent(google_api_key, openai_api_key, pollinations_token)
    /\ banners' = banners \cup
          { Error(MissingCredential(google_api_key, openai_api_key,
                                    pollinations_token)) }
    /\ outcome' = "st.stop"
    /\ pc' = "idle"
    /\ UNCHANGED << secrets, clicked, google_api_key, openai_api_key,
                    pollinations_token, gemini_llm, openai_llm, session_state, query, llm, name,
                    reason, accuracy, final_response, response_placeholder,
                    img_prompt, selected_style, quick_prompt, uploaded_img,
                    qna_prompt, img_read, content, final_prompt, img_bytes,
                    image_shown, download_offered, cache, calls, stream_in,
                    stream_ended, conv_at_start, submitted, image_requests,
                    http_log >>

InitializeLLMs ==
    /\ pc = "startup"
    /\ CredentialsPresent(google_api_key, openai_api_key, pollinations_token)
    /\ gemini_llm' = [model |-> "gemini-2.5-flash", api_key |-> google_api_key,
                      built |-> TRUE]
    /\ openai_llm' = [model |-> "gpt-5-nano", api_key |-> openai_api_key,
                      built |-> TRUE]
    /\ pc' = "tab1"
    /\ UNCHANGED << secrets, clicked, google_api_key, openai_api_key,
                    pollinations_token, session_state, query, llm, name, reason, accuracy,
                    final_response, response_placeholder, img_prompt,
                    selected_style, quick_prompt, uploaded_img, qna_prompt,
                    img_read, content, final_prompt, img_bytes, image_shown,
                    download_offered, cache, banners, outcome, calls, stream_in,
                    stream_ended, conv_at_start, submitted, image_requests,
                    http_log >>

-----------------------------------------------------------------------------
(* Variable groups *)

credentials == << secrets, google_api_key, openai_api_key, pollinations_token >>
models == << gemini_llm, openai_llm >>
task_locals == << llm, name, reason, accuracy >>
tab2_locals == << img_prompt, selected_style, quick_prompt >>
tab3_locals == << uploaded_img, qna_prompt, img_read, content >>
image_locals == << final_prompt, img_bytes, image_shown, download_offered >>
image_store == << cache, image_requests, http_log >>

-----------------------------------------------------------------------------
(* Text chat tab: lines 66-110 *)

\* lines 69-70
WithConversation(ss) ==
    [has_conversation |-> TRUE,
     conversation |-> IF ss.has_conversation THEN ss.conversation ELSE << >>]

\* line 76
Prompt(q) == << "User: " >> \o q \o << "\nAssistant:" >>

\* line 82 and line 198
Rendered(text) == << "**Answer (streaming):**\n\n" >> \o text

\* chunk.content or ""
ContentOrEmpty(c) == IF Falsy(c) THEN NoText ELSE c

\* a plausible slip: the newest chunk is put in front
AddChunk_in_front(text, c) == ContentOrEmpty(c) \o text

\* line 81 and line 197
AddChunk(text, c) == text \o ContentOrEmpty(c)

Digit(n) == << "0", "1", "2", "3", "4", "5", "6", "7", "8", "9" >>[n + 1]

\* f"{accuracy*100:.1f}", accuracy in hundredths below 1.00
FormatPercent(a) == << Digit(a \div 10), Digit(a % 10), ".", "0" >>

\* line 85
meta_info(n, r, a) ==
    << "\n\n---\n**Model Used:** ", n, "\n**Reason:** ", r,
       "\n**Estimated Accuracy:** " >> \o FormatPercent(a) \o << "%" >>

\* a plausible slip: the new entry is put in front of the history
StoreEntry_in_front(conv, q, ans) == << << q, ans >> >> \o conv

\* line 103
StoreEntry(conv, q, ans) == Append(conv, << q, ans >>)

\* neither Process nor Clear Conversation is pressed
Tab1NoButton ==
    /\ pc = "tab1"
    /\ \E b \in { "none", "Generate Image", "Analyze Image" } : clicked' = b
    /\ session_state' = WithConversation(session_state)
    /\ pc' = "tab2"
    /\ UNCHANGED << credentials, models, query, task_locals, final_response,
                    response_placeholder, tab2_locals, tab3_locals,
                    image_locals, image_store, banners, outcome, calls,
                    stream_in, stream_ended, conv_at_start, submitted >>

\* lines 98-99
ClearConversation ==
    /\ pc = "tab1"
    /\ clicked' = "Clear Conversation"
    /\ session_state' = [has_conversation |-> TRUE, conversation |-> << >>]
    /\ submitted' = << >>
    /\ pc' = "tab2"
    /\ UNCHANGED << credentials, models, query, task_locals, final_response,
                    response_placeholder, tab2_locals, tab3_locals,
                    image_locals, image_store, banners, outcome, calls,
                    stream_in, stream_ended, conv_at_start >>

\* line 101 with an empty query: nothing runs, nothing is shown
ProcessEmpty ==
    /\ pc = "tab1"
    /\ clicked' = "Process"
    /\ \E q \in TextQueries : Falsy(q) /\ query' = q
    /\ session_state' = WithConversation(session_state)
    /\ pc' = "tab2"
    /\ UNCHANGED << credentials, models, task_locals, final_response,
                    response_placeholder, tab2_locals, tab3_locals,
                    image_locals, image_store, banners, outcome, calls,
                    stream_in, stream_ended, conv_at_start, submitted >>

\* a plausible slip: the emptiness test of line 101 is left out
ProcessRoute_no_check(q) ==
    /\ pc = "tab1"
    /\ Len(conversation) < MaxHistory
    /\ clicked' = "Process"
    /\ query' = q
    /\ session_state' = WithConversation(session_state)
    /\ LET d == choose_llm(q) IN
          /\ llm' = d.llm
          /\ name' = d.name
          /\ reason' = d.reason
          /\ accuracy' = d.accuracy
          /\ calls' = Append(calls, Call(d.llm, "stream", Prompt(q)))
    /\ response_placeholder' = NoText
    /\ final_response' = NoText
    /\ pc' = "stream"
    /\ UNCHANGED << credentials, models, tab2_locals, tab3_locals,
                    image_locals, image_store, banners, outcome, stream_in,
                    stream_ended, conv_at_start, submitted >>

\* lines 101-102 and 74-80: route, build the prompt, open the stream
ProcessRoute(q) ==
    /\ pc = "tab1"
    /\ ~Falsy(q)
    /\ Len(conversation) < MaxHistory
    /\ clicked' = "Process"
    /\ query' = q
    /\ session_state' = WithConversation(session_state)
    /\ LET d == choose_llm(q) IN
          /\ llm' = d.llm
          /\ name' = d.name
          /\ reason' = d.reason
          /\ accuracy' = d.accuracy
          /\ calls' = Append(calls, Call(d.llm, "stream", Prompt(q)))
    /\ response_placeholder' = NoText
    /\ final_response' = NoText
    /\ pc' = "stream"
    /\ UNCHANGED << credentials, models, tab2_locals, tab3_locals,
                    image_locals, image_store, banners, outcome, stream_in,
                    stream_ended, conv_at_start, submitted >>

\* lines 80-82: one chunk arrives
StreamChunk(c) ==
    /\ pc = "stream"
    /\ Len(stream_in) < MaxChunks
    /\ stream_in' = Append(stream_in, c)
    /\ final_response' = AddChunk(final_response, c)
    /\ response_placeholder' = Rendered(final_response')
    /\ UNCHANGED << pc, clicked, credentials, models, session_state, query,
                    task_locals, tab2_locals, tab3_locals, image_locals,
                    image_store, banners, outcome, calls, stream_ended,
                    conv_at_start, submitted >>

\* the iteration of line 80 ends
StreamEnd ==
    /\ pc = "stream"
    /\ stream_ended' = TRUE
    /\ submitted' = Append(submitted, query)
    /\ pc' = "meta"
    /\ UNCHANGED << clicked, credentials, models, session_state, query,
                    task_locals, final_response, response_placeholder,
                    tab2_locals, tab3_locals, image_locals, image_store,
                    banners, outcome, calls, stream_in, conv_at_start >>

\* a plausible slip: what was streamed before the failure is stored
StreamFail_keeps_partial ==
    /\ pc = "stream"
    /\ session_state' = [session_state EXCEPT
          !.conversation = StoreEntry(conversation, query, final_response)]
    /\ outcome' = "BackendError"
    /\ pc' = "idle"
    /\ UNCHANGED << clicked, credentials, models, query, task_locals,
                    final_response, response_placeholder, tab2_locals,
                    tab3_locals, image_locals, image_store, banners, calls,
                    stream_in, stream_ended, conv_at_start, submitted >>

\* the backend fails at line 80: nothing catches it, the run ends
StreamFail ==
    /\ pc = "stream"
    /\ outcome' = "BackendError"
    /\ pc' = "idle"
    /\ UNCHANGED << clicked, credentials, models, session_state, query,
                    task_locals, final_response, response_placeholder,
                    tab2_locals, tab3_locals, image_locals, image_store,
                    banners, calls, stream_in, stream_ended, conv_at_start,
                    submitted >>

\* lines 85-88
AppendMeta ==
    /\ pc = "meta"
    /\ final_response' = final_response \o meta_info(name, reason, accuracy)
    /\ pc' = "store"
    /\ UNCHANGED << clicked, credentials, models, session_state, query,
                    task_locals, response_placeholder, tab2_locals,
                    tab3_locals, image_locals, image_store, banners, outcome,
                    calls, stream_in, stream_ended, conv_at_start, submitted >>

\* line 103
Store ==
    /\ pc = "store"
    /\ session_state' = [session_state EXCEPT
          !.conversation = StoreEntry(conversation, query, final_response)]
    /\ pc' = "tab2"
    /\ UNCHANGED << clicked, credentials, models, query, task_locals,
                    final_response, response_placeholder, tab2_locals,
                    tab3_locals, image_locals, image_store, banners, outcome,
                    calls, stream_in, stream_ended, conv_at_start, submitted >>

-----------------------------------------------------------------------------
(* Names bound in the script's namespace when the tab2 and tab3 handlers   *)
(* run: the imports, the assignments and the defs of lines 1-176.  llm is  *)
(* not one of them.                                                        *)

ModuleGlobals ==
    { "os", "requests", "base64", "BytesIO", "Image", "st", "load_dotenv",
      "ChatGoogleGenerativeAI", "ChatOpenAI", "HumanMessage",
      "google_api_key", "openai_api_key", "pollinations_token",
      "gemini_llm", "openai_llm", "choose_llm", "handle_text_task", "query",
      "col1", "col2", "process_clicked", "clear_clicked", "ans",
      "user_q", "assistant_a", "img_prompt", "styles", "selected_style",
      "smart_enhance_prompt", "fetch_image", "uploaded_img", "qna_prompt" }

Bound(nm) == nm \in ModuleGlobals

-----------------------------------------------------------------------------
(* Image generator tab: lines 120-164 *)

\* line 131
QuickPrompt(p, s) ==
    << "Rewrite this short prompt into a detailed ", s,
       " image generation description: " >> \o p

Tab2NoButton ==
    /\ pc = "tab2"
    /\ clicked # "Generate Image"
    /\ pc' = "tab3"
    /\ UNCHANGED << clicked, credentials, models, session_state, query,
                    task_locals, final_response, response_placeholder,
                    tab2_locals, tab3_locals, image_locals, image_store,
                    banners, outcome, calls, stream_in, stream_ended,
                    conv_at_start, submitted >>

\* lines 141-143
GenerateEmptyPrompt ==
    /\ pc = "tab2"
    /\ clicked = "Generate Image"
    /\ \E p \in ImagePrompts : Falsy(p) /\ img_prompt' = p
    /\ banners' = banners \cup
          { Warning("Please enter a prompt before generating an image.") }
    /\ pc' = "tab3"
    /\ UNCHANGED << clicked, credentials, models, session_state, query,
                    task_locals, final_response, response_placeholder,
                    selected_style, quick_prompt, tab3_locals, image_locals,
                    image_store, outcome, calls, stream_in, stream_ended,
                    conv_at_start, submitted >>

\* lines 144-147 and 130-132: the template is filled, then llm.invoke is
\* evaluated outside the try of line 150 and llm is unbound
GenerateEnhance(p, s) ==
    /\ pc = "tab2"
    /\ clicked = "Generate Image"
    /\ ~Falsy(p)
    /\ img_prompt' = p
    /\ selected_style' = s
    /\ quick_prompt' = QuickPrompt(p, s)
    /\ ~Bound("llm")
    /\ outcome' = "NameError"
    /\ pc' = "idle"
    /\ UNCHANGED << clicked, credentials, models, session_state, query,
                    task_locals, final_response, response_placeholder,
                    tab3_locals, image_locals, image_store, banners, calls,
                    stream_in, stream_ended, conv_at_start, submitted >>

-----------------------------------------------------------------------------
(* Image Q&A tab: lines 170-198 *)

Base64Alphabet ==
    << "A", "B", "C", "D", "E", "F", "G", "H", "I", "J", "K", "L", "M", "N", "O",
       "P", "Q", "R", "S", "T", "U", "V", "W", "X", "Y", "Z", "a", "b", "c", "d",
       "e", "f", "g", "h", "i", "j", "k", "l", "m", "n", "o", "p", "q", "r", "s",
       "t", "u", "v", "w", "x", "y", "z", "0", "1", "2", "3", "4", "5", "6", "7",
       "8", "9", "+", "/" >>

Sextet(n) == Base64Alphabet[n + 1]

\* base64.b64encode(...).decode("utf-8")
RECURSIVE b64encode(_)
b64encode(bs) ==
    IF Len(bs) = 0 THEN << >>
    ELSE IF Len(bs) = 1 THEN
        << Sextet(bs[1] \div 4), Sextet((bs[1] % 4) * 16), "=", "=" >>
    ELSE IF Len(bs) = 2 THEN
        << Sextet(bs[1] \div 4),
           Sextet((bs[1] % 4) * 16 + bs[2] \div 16),
           Sextet((bs[2] % 16) * 4), "=" >>
    ELSE
        << Sextet(bs[1] \div 4),
           Sextet((bs[1] % 4) * 16 + bs[2] \div 16),
           Sextet((bs[2] % 16) * 4 + bs[3] \div 64),
           Sextet(bs[3] % 64) >> \o b64encode(SubSeq(bs, 4, Len(bs)))

\* line 186
DataUrl(bs) == << "data:image/png;base64," >> \o b64encode(bs)

\* lines 188-191
Content(q, bs) ==
    << [type |-> "text", text |-> q, url |-> NoText],
       [type |-> "image_url", text |-> NoText, url |-> DataUrl(bs)] >>

\* a plausible slip: the question is not tested
AnalyzeBranch_no_question_test(u, q) ==
    IF ~u.present THEN "no image" ELSE "analyze"

\* lines 177-181
AnalyzeBranch(u, q) ==
    IF ~u.present THEN "no image"
    ELSE IF Falsy(q) THEN "no question"
    ELSE "analyze"

Tab3NoButton ==
    /\ pc = "tab3"
    /\ clicked # "Analyze Image"
    /\ outcome' = "completed"
    /\ pc' = "idle"
    /\ UNCHANGED << clicked, credentials, models, session_state, query,
                    task_locals, final_response, response_placeholder,
                    tab2_locals, tab3_locals, image_locals, image_store,
                    banners, calls, stream_in, stream_ended, conv_at_start,
                    submitted >>

\* lines 177-178
AnalyzeNoImage ==
    /\ pc = "tab3"
    /\ clicked = "Analyze Image"
    /\ \E u \in Uploads, q \in Questions :
          /\ AnalyzeBranch(u, q) = "no image"
          /\ uploaded_img' = u
          /\ qna_prompt' = q
    /\ banners' = banners \cup { Warning("Please upload an image first.") }
    /\ outcome' = "completed"
    /\ pc' = "idle"
    /\ UNCHANGED << clicked, credentials, models, session_state, query,
                    task_locals, final_response, response_placeholder,
                    tab2_locals, img_read, content, image_locals, image_store,
                    calls, stream_in, stream_ended, conv_at_start, submitted >>

\* lines 179-180
AnalyzeNoQuestion ==
    /\ pc = "tab3"
    /\ clicked = "Analyze Image"
    /\ \E u \in Uploads, q \in Questions :
          /\ AnalyzeBranch(u, q) = "no question"
          /\ uploaded_img' = u
          /\ qna_prompt' = q
    /\ banners' = banners \cup
          { Warning("Please enter a question about the image.") }
    /\ outcome' = "completed"
    /\ pc' = "idle"
    /\ UNCHANGED << clicked, credentials, models, session_state, query,
                    task_locals, final_response, response_placeholder,
                    tab2_locals, img_read, content, image_locals, image_store,
                    calls, stream_in, stream_ended, conv_at_start, submitted >>

\* lines 181-194: the image is read and encoded, the message is built
AnalyzeEncode(u, q) ==
    /\ pc = "tab3"
    /\ clicked = "Analyze Image"
    /\ AnalyzeBranch(u, q) = "analyze"
    /\ uploaded_img' = u
    /\ qna_prompt' = q
    /\ img_read' = TRUE
    /\ content' = Content(q, u.bytes)
    /\ response_placeholder' = NoText
    /\ final_response' = NoText
    /\ pc' = "qna_stream"
    /\ UNCHANGED << clicked, credentials, models, session_state, query,
                    task_locals, tab2_locals, image_locals, image_store,
                    banners, outcome, calls, stream_in, stream_ended,
                    conv_at_start, submitted >>

\* line 196: llm.stream is evaluated and llm is unbound
AnalyzeStream ==
    /\ pc = "qna_stream"
    /\ ~Bound("llm")
    /\ outcome' = "NameError"
    /\ pc' = "idle"
    /\ UNCHANGED << clicked, credentials, models, session_state, query,
                    task_locals, final_response, response_placeholder,
                    tab2_locals, tab3_locals, image_locals, image_store,
                    banners, calls, stream_in, stream_ended, conv_at_start,
                    submitted >>

-----------------------------------------------------------------------------
(* The script *)

Next ==
    \/ Rerun
    \/ CredentialStop
    \/ InitializeLLMs
    \/ Tab1NoButton
    \/ ClearConversation
    \/ ProcessEmpty
    \/ \E q \in TextQueries : ProcessRoute(q)
    \/ \E c \in ChunkContents : StreamChunk(c)
    \/ StreamEnd
    \/ StreamFail
    \/ AppendMeta
    \/ Store
    \/ Tab2NoButton
    \/ GenerateEmptyPrompt
    \/ \E p \in ImagePrompts, s \in 1..Len(styles) : GenerateEnhance(p, styles[s])
    \/ Tab3NoButton
    \/ AnalyzeNoImage
    \/ AnalyzeNoQuestion
    \/ \E u \in Uploads, q \in Questions : AnalyzeEncode(u, q)
    \/ AnalyzeStream

Spec == Init /\ [][Next]_vars

-----------------------------------------------------------------------------
(* choose_llm on its own: lines 52-61 applied to a query *)

f_Image == << "I", "m", "a", "g", "e" >>
f_ANALYZE == << "A", "N", "A", "L", "Y", "Z", "E" >>
f_summarize == << "s", "u", "m", "m", "a", "r", "i", "z", "e" >>
f_eXplain == << "e", "X", "p", "l", "a", "i", "n" >>
f_Creative == << "C", "r", "e", "a", "t", "i", "v", "e" >>
f_STORY == << "S", "T", "O", "R", "Y" >>
f_imag == << "i", "m", "a", "g" >>
f_filler == << "x", " " >>

Fragments == { f_Image, f_ANALYZE, f_summarize, f_eXplain, f_Creative, f_STORY,
               f_imag, f_filler }

\* the sequences of n different fragments
RECURSIVE FragmentSeqs(_)
FragmentSeqs(n) ==
    IF n = 0 THEN { << >> }
    ELSE { t \in { Append(s, f) : s \in FragmentSeqs(n - 1), f \in Fragments } :
              \A i \in 1..(n - 1) : t[i] # t[n] }

\* the texts made of at most m different fragments
RouterQueries(m) ==
    { Concat(s) : s \in UNION { FragmentSeqs(n) : n \in 0..m } }

AllPresent ==
    [GOOGLE_API_KEY |-> << "k" >>, OPENAI_API_KEY |-> << "k" >>,
     POLLINATIONS_TOKEN |-> << "k" >>]

\* the query is drawn; the call of line 74 is about to run
InitRouter ==
    /\ secrets = AllPresent
    /\ pc = "router"
    /\ query \in RouterQueries(MaxFrags)
    /\ InitRest

\* line 74: the call of choose_llm
RouterApply ==
    /\ pc = "router"
    /\ LET d == choose_llm(query) IN
          /\ llm' = d.llm
          /\ name' = d.name
          /\ reason' = d.reason
          /\ accuracy' = d.accuracy
    /\ pc' = "routed"
    /\ UNCHANGED << clicked, credentials, models, session_state, query,
                    final_response, response_placeholder, tab2_locals,
                    tab3_locals, image_locals, image_store, banners, outcome,
                    calls, stream_in, stream_ended, conv_at_start, submitted >>

NextRouter == RouterApply

SpecRouter == InitRouter /\ [][NextRouter]_vars

-----------------------------------------------------------------------------
(* fetch_image and the try block of lines 150-164 on their own, entered    *)
(* with an enhanced prompt and a token                                     *)

EnhancedPrompts == { << "p", "1" >>, << "p", "2" >> }
Tokens == { << "t", "1" >>, << "t", "2" >> }

\* what the endpoint can answer
Bodies == { "PNG-A", "PNG-B", "not an image" }
IsImage(b) == b \in { "PNG-A", "PNG-B" }

\* line 138
Url(fp, t) ==
    << "https://image.pollinations.ai/prompt/" >> \o fp \o << "?token=" >> \o t

\* a plausible slip: the token is left out of the memo key
CacheKey_prompt_only(fp, t) == << fp >>

\* lines 136-137: st.cache_data keys the result by the arguments
CacheKey(fp, t) == << fp, t >>

Cached(fp, t) == \E e \in cache : e.key = CacheKey(fp, t)
CachedValue(fp, t) == (CHOOSE e \in cache : e.key = CacheKey(fp, t)).value

InitImage ==
    /\ secrets = AllPresent
    /\ pc = "idle"
    /\ query = Unread
    /\ InitRest

\* line 151: the call of fetch_image
ImageRequest(fp, t) ==
    /\ pc = "idle"
    /\ Len(image_requests) < MaxImageRequests
    /\ final_prompt' = fp
    /\ pollinations_token' = t
    /\ img_bytes' = "unset"
    /\ image_shown' = FALSE
    /\ download_offered' = FALSE
    /\ banners' = {}
    /\ outcome' = "running"
    /\ calls' = << >>
    /\ image_requests' = Append(image_requests, << fp, t >>)
    /\ pc' = "fetch"
    /\ UNCHANGED << secrets, clicked, google_api_key, openai_api_key, models,
                    session_state, query, task_locals, final_response,
                    response_placeholder, tab2_locals, tab3_locals, cache,
                    http_log, stream_in, stream_ended, conv_at_start,
                    submitted >>

\* the memoized result is returned; line 139 does not run
FetchCached ==
    /\ pc = "fetch"
    /\ Cached(final_prompt, pollinations_token)
    /\ img_bytes' = CachedValue(final_prompt, pollinations_token)
    /\ pc' = "open"
    /\ UNCHANGED << clicked, credentials, models, session_state, query,
                    task_locals, final_response, response_placeholder,
                    tab2_locals, tab3_locals, final_prompt, image_shown,
                    download_offered, image_store, banners, outcome, calls,
                    stream_in, stream_ended, conv_at_start, submitted >>

\* line 139 runs, the GET returns and the result is memoized
FetchGet(body) ==
    /\ pc = "fetch"
    /\ ~Cached(final_prompt, pollinations_token)
    /\ http_log' = Append(http_log,
          [url |-> Url(final_prompt, pollinations_token), result |-> body])
    /\ calls' = Append(calls,
          Call("requests", "get", Url(final_prompt, pollinations_token)))
    /\ cache' = cache \cup
          { [key |-> CacheKey(final_prompt, pollinations_token), value |-> body] }
    /\ img_bytes' = body
    /\ pc' = "open"
    /\ UNCHANGED << clicked, credentials, models, session_state, query,
                    task_locals, final_response, response_placeholder,
                    tab2_locals, tab3_locals, final_prompt, image_shown,
                    download_offered, image_requests, banners, outcome,
                    stream_in, stream_ended, conv_at_start, submitted >>

\* line 139 runs and requests.get raises: nothing is memoized; lines 163-164
FetchRaise ==
    /\ pc = "fetch"
    /\ ~Cached(final_prompt, pollinations_token)
    /\ http_log' = Append(http_log,
          [url |-> Url(final_prompt, pollinations_token), result |-> "raised"])
    /\ calls' = Append(calls,
          Call("requests", "get", Url(final_prompt, pollinations_token)))
    /\ banners' = banners \cup { Error("Failed to generate image") }
    /\ outcome' = "completed"
    /\ pc' = "idle"
    /\ UNCHANGED << clicked, credentials, models, session_state, query,
                    task_locals, final_response, response_placeholder,
                    tab2_locals, tab3_locals, image_locals, cache,
                    image_requests, stream_in, stream_ended, conv_at_start,
                    submitted >>

\* line 152 raises on bytes that are no image; lines 163-164
ImageOpenFail ==
    /\ pc = "open"
    /\ ~IsImage(img_bytes)
    /\ banners' = banners \cup { Error("Failed to generate image") }
    /\ outcome' = "completed"
    /\ pc' = "idle"
    /\ UNCHANGED << clicked, credentials, models, session_state, query,
                    task_locals, final_response, response_placeholder,
                    tab2_locals, tab3_locals, image_locals, image_store, calls,
                    stream_in, stream_ended, conv_at_start, submitted >>

\* lines 152-162
ImageDisplay ==
    /\ pc = "open"
    /\ IsImage(img_bytes)
    /\ image_shown' = TRUE
    /\ download_offered' = TRUE
    /\ outcome' = "completed"
    /\ pc' = "idle"
    /\ UNCHANGED << clicked, credentials, models, session_state, query,
                    task_locals, final_response, response_placeholder,
                    tab2_locals, tab3_locals, final_prompt, img_bytes,
                    image_store, banners, calls, stream_in, stream_ended,
                    conv_at_start, submitted >>

NextImage ==
    \/ \E fp \in EnhancedPrompts, t \in Tokens : ImageRequest(fp, t)
    \/ FetchCached
    \/ \E b \in Bodies : FetchGet(b)
    \/ FetchRaise
    \/ ImageOpenFail
    \/ ImageDisplay

SpecImage == InitImage /\ [][NextImage]_vars

-----------------------------------------------------------------------------
(* Properties *)

Elements(s) == { s[i] : i \in 1..Len(s) }

UpperOf ==
    [c \in { LowerCase[i] : i \in 1..Len(LowerCase) } |->
        UpperCase[CHOOSE i \in 1..Len(LowerCase) : LowerCase[i] = c]]

\* a is the lower-case letter b, in either case
SameLetter(a, b) == a = b \/ a = UpperOf[b]

\* the keyword k occurs in q, whatever the case of q's letters
Has(k, q) ==
    \E i \in 1..(Len(q) - Len(k) + 1) :
        \A j \in 1..Len(k) : SameLetter(q[i + j - 1], k[j])

\* the table of the policy: backend and confidence, first match wins
PolicyTable(q) ==
    IF Has(kw_image, q) \/ Has(kw_analyze, q) THEN << "gemini_llm", 92 >>
    ELSE IF Has(kw_summarize, q) \/ Has(kw_explain, q) THEN << "openai_llm", 95 >>
    ELSE IF Has(kw_creative, q) \/ Has(kw_story, q) THEN << "openai_llm", 93 >>
    ELSE << "gemini_llm", 90 >>

\* C1: for every query, choose_llm returns the backend and the confidence
\* of the policy table (image/analyze: multimodal backend, 0.92; else
\* summarize/explain: text backend, 0.95; else creative/story: text
\* backend, 0.93; else multimodal backend, 0.90), the keywords being looked
\* for anywhere in the query and in any case.
C1_RouterFollowsPolicyTable ==
    /\ pc = "routed" =>
          /\ << llm, accuracy >> = PolicyTable(query)
          /\ name = (IF llm = "gemini_llm" THEN Gemini ELSE OpenAI)

\* the six keywords, in mixed case, in one query: the first rule wins
C1_Witness ==
    /\ pc = "routed"
    /\ \A k \in { kw_image, kw_analyze, kw_summarize, kw_explain, kw_creative,
                  kw_story } : Has(k, query)
    /\ ~In(kw_image, query)
    /\ << llm, accuracy >> = << "gemini_llm", 92 >>

HistoryQueries == [i \in 1..Len(conversation) |-> conversation[i][1]]

Warnings == { b \in banners : b.kind = "warning" }
Errors == { b \in banners : b.kind = "error" }

EmptyProcess == pc = "idle" /\ clicked = "Process" /\ Falsy(query)
EmptyGenerate == pc = "idle" /\ clicked = "Generate Image" /\ Falsy(img_prompt)

NothingDone ==
    /\ calls = << >>
    /\ conversation = conv_at_start
    /\ cache = {}
    /\ http_log = << >>
    /\ outcome = "completed"

AllThree(s) ==
    /\ ~Falsy(s.GOOGLE_API_KEY)
    /\ ~Falsy(s.OPENAI_API_KEY)
    /\ ~Falsy(s.POLLINATIONS_TOKEN)

\* C8: with one of the three credentials missing, a run never gets past
\* the startup checks: no model is built, no button is read, no call is
\* made, the history is untouched, and the run ends in st.stop with an error
\* message; a run is past the startup checks only with all three present.
C8_MissingCredentialHalts ==
    /\ ~AllThree(secrets) =>
          /\ pc \in { "idle", "startup" }
          /\ ~gemini_llm.built /\ ~openai_llm.built
          /\ clicked = "unread"
          /\ calls = << >>
          /\ conversation = << >>
          /\ (pc = "idle" /\ outcome # "none") =>
                (outcome = "st.stop" /\ Errors # {})
    /\ pc \notin { "idle", "startup" } =>
          /\ AllThree(secrets)
          /\ gemini_llm.built /\ openai_llm.built

\* only the image token is missing
C8_Witness ==
    /\ pc = "idle"
    /\ outcome = "st.stop"
    /\ ~Falsy(secrets.GOOGLE_API_KEY)
    /\ ~Falsy(secrets.OPENAI_API_KEY)
    /\ Falsy(secrets.POLLINATIONS_TOKEN)
    /\ banners = { Error("POLLINATIONS_TOKEN") }

\* C9 as stated: when a run in which Analyze Image was pressed with an
\* uploaded image and a non-empty question is over, exactly one streaming
\* request was sent, to the multimodal backend, carrying the question and
\* the image as a base64 data URL.
C9_Claim ==
    ( /\ pc = "idle"
      /\ clicked = "Analyze Image"
      /\ uploaded_img.present
      /\ qna_prompt \notin { Unread, NoText } )
    => /\ Len(calls) = 1
       /\ calls[1].to = "gemini_llm"
       /\ calls[1].method = "stream"

\* the text of the chunks delivered so far, in arrival order
Delivered ==
    Concat([i \in 1..Len(stream_in) |->
               IF stream_in[i] = None THEN NoText ELSE stream_in[i]])

MetaHeader == "\n\n---\n**Model Used:** "

Gets(u) == { i \in 1..Len(http_log) : http_log[i].url = u }
Returned(u) == { i \in Gets(u) : http_log[i].result # "raised" }
Requests(k) == { i \in 1..Len(image_requests) : image_requests[i] = k }

\* the requests for k whose call of fetch_image is over
Finished(k) ==
    { i \in Requests(k) : ~(pc = "fetch" /\ i = Len(image_requests)) }

ImageKeys == { << fp, t >> : fp \in EnhancedPrompts, t \in Tokens }

====
